---------------------------- MODULE Spec2Model ----------------------------
(***************************************************************************)
(* A model of bot.py: the watchlist store (load_data / save_data), the     *)
(* five command handlers, the status lookup with its formatting, and the   *)
(* periodic reporter.                                                      *)
(*                                                                         *)
(* Strings are sequences of code points, so that lower() and sorted() are  *)
(* computed as Python computes them.  A message text is the command word   *)
(* followed by a sequence of items, each a whitespace character or a word. *)
(***************************************************************************)
EXTENDS Integers, Sequences, FiniteSets, TLC

VARIABLES
    file,       \* content of DATA_FILE (domains.json)
    handlers,   \* per handler task: its position and what it has replied
    periodic    \* position and locals of the periodic_check job

vars == <<file, handlers, periodic>>

(***************************************************************************)
(* Bounds.                                                                 *)
(***************************************************************************)
\* Longest message text, in items (command word, whitespace, words).
MaxText == 5

\* Words a user types after a command: "b", "B", "ab".
Words == { <<98>>, <<66>>, <<97, 98>> }

\* Whitespace characters a user types between words: " ".
Spaces == { <<32>> }

\* Chats a start command can come from.
Chats == { 1001, -2002 }

\* Handler tasks that can be in flight.
Slots == { "h1", "h2" }

(***************************************************************************)
(* Strings.                                                                *)
(***************************************************************************)
ToSet(s) == { s[i] : i \in DOMAIN s }

\* str.lower() on one code point (ASCII).
LowerChar(c) == IF c >= 65 /\ c <= 90 THEN c + 32 ELSE c

\* str.lower()
Lower(w) == [ i \in DOMAIN w |-> LowerChar(w[i]) ]

\* Python's < on strings: lexicographic on code points.
RECURSIVE StrLess(_, _)
StrLess(s, t) ==
    IF t = <<>> THEN FALSE
    ELSE IF s = <<>> THEN TRUE
    ELSE IF s[1] < t[1] THEN TRUE
    ELSE IF s[1] > t[1] THEN FALSE
    ELSE StrLess(Tail(s), Tail(t))

\* sorted(list(S)) for a set S of strings.
RECURSIVE Sorted(_)
Sorted(S) ==
    IF S = {} THEN <<>>
    ELSE LET m == CHOOSE x \in S : \A y \in S \ {x} : StrLess(x, y)
         IN  <<m>> \o Sorted(S \ {m})

\* [d for d in seq if d not in drop]
RECURSIVE Without(_, _)
Without(seq, drop) ==
    IF seq = <<>> THEN <<>>
    ELSE IF Head(seq) \in drop THEN Without(Tail(seq), drop)
    ELSE <<Head(seq)>> \o Without(Tail(seq), drop)

(***************************************************************************)
(* Message texts and get_domains_from_message.                             *)
(***************************************************************************)
IsSpace(x) == x \in Spaces

\* Texts of n items after the command word; a word always follows
\* whitespace (two adjacent words would be one longer word).
RECURSIVE Rests(_)
Rests(n) ==
    IF n = 0 THEN { <<>> }
    ELSE LET shorter == Rests(n - 1)
         IN  shorter
             \cup { Append(r, sp) : r \in { q \in shorter : Len(q) = n - 1 }, sp \in Spaces }
             \cup { Append(r, w) : r \in { q \in shorter : Len(q) = n - 1 /\ q /= <<>>
                                                         /\ IsSpace(q[Len(q)]) },
                                    w \in Words }

Texts == Rests(MaxText - 1)

\* Drop leading whitespace.
RECURSIVE LStrip(_)
LStrip(r) ==
    IF r = <<>> THEN <<>>
    ELSE IF IsSpace(Head(r)) THEN LStrip(Tail(r))
    ELSE r

\* str.split() with no separator: the words between whitespace runs.
RECURSIVE SplitAll(_)
SplitAll(r) ==
    IF r = <<>> THEN <<>>
    ELSE IF IsSpace(Head(r)) THEN SplitAll(Tail(r))
    ELSE <<Head(r)>> \o SplitAll(Tail(r))

\* text.split(maxsplit=1) for the text "<command><rest>": the command word,
\* and what follows the first whitespace run when anything does.
SplitFirst(rest) ==
    LET tail == LStrip(rest)
    IN  IF tail = <<>> THEN << <<"cmd">> >> ELSE << <<"cmd">>, tail >>

get_domains_from_message(rest) ==
    LET parts == SplitFirst(rest)
    IN  IF Len(parts) < 2 THEN <<>> ELSE SplitAll(parts[2])

(***************************************************************************)
(* The data file, load_data and save_data.                                 *)
(***************************************************************************)
\* A file's content.  kind: "absent", "unreadable" (open or read fails with
\* an OSError), "notutf8" (bytes that do not decode), "notjson" (text that
\* is not a JSON document, the empty and the truncated file included),
\* "nonobj" (a JSON document that is not an object), "obj" (a JSON object).
\* chat is {} for null or {id}; domNull says that "domains" is null.
FileOf(kind, hasChat, chat, hasDomains, domNull, domains) ==
    [ kind |-> kind, hasChat |-> hasChat, chat |-> chat,
      hasDomains |-> hasDomains, domNull |-> domNull, domains |-> domains ]

Plain(kind) == FileOf(kind, FALSE, {}, FALSE, FALSE, <<>>)

\* json.dump of the dict {"chat_id": ..., "domains": [...]}.
Dumped(chat, domains) == FileOf("obj", TRUE, chat, TRUE, FALSE, domains)

\* The dict the handlers work on.
DataOf(chat, domNull, domains) ==
    [ chat |-> chat, domNull |-> domNull, domains |-> domains ]

DefaultData == DataOf({}, FALSE, <<>>)

\* load_data(): the dict it returns, or raised when it raises.
load_data(f) ==
    CASE f.kind = "absent"     -> [ raised |-> FALSE, data |-> DefaultData ]
      [] f.kind = "unreadable" -> [ raised |-> FALSE, data |-> DefaultData ]
      [] f.kind = "notjson"    -> [ raised |-> FALSE, data |-> DefaultData ]
      [] f.kind = "notutf8"    -> [ raised |-> TRUE,  data |-> DefaultData ]
      [] f.kind = "nonobj"     -> [ raised |-> TRUE,  data |-> DefaultData ]
      [] OTHER ->
           [ raised |-> FALSE,
             data |-> DataOf(IF f.hasChat THEN f.chat ELSE {},
                             f.hasDomains /\ f.domNull,
                             IF f.hasDomains /\ ~f.domNull THEN f.domains ELSE <<>>) ]

\* sorted(list(set(domains)))  -- a variant that keeps the list as it is
UniqueDomainsUnsorted(domains) == domains

\* sorted(list(set(domains)))
UniqueDomains(domains) == Sorted(ToSet(domains))

\* How a write can go: "none" (it succeeds), "open" (open() raises an
\* OSError), "write" (json.dump raises an OSError after open() truncated).
WriteFaults == { "none", "open", "write" }

\* save_data(data) on file f: the file afterwards, and raised when an
\* exception leaves save_data (set(None) is a TypeError, not an IOError).
save_data(f, data, fault) ==
    IF fault = "open" THEN [ file |-> f, raised |-> FALSE ]
    ELSE IF data.domNull THEN [ file |-> Plain("notjson"), raised |-> TRUE ]
    ELSE IF fault = "write" THEN [ file |-> Plain("notjson"), raised |-> FALSE ]
    ELSE [ file |-> Dumped(data.chat, UniqueDomains(data.domains)), raised |-> FALSE ]

(***************************************************************************)
(* check_domain_status and format_status_message.                          *)
(***************************************************************************)
\* What the HTTP exchange of one lookup can be.  transport: "raise"
\* (requests.get raises: timeout, connection error), "ok" (a 2xx response),
\* "http_error" (raise_for_status raises).  body: "notjson", "nonobj" (a
\* JSON value that is not an object), or a JSON object: with an "error"
\* key, with status BLOCKED, with another or no status, with a status that
\* is not a string.
Bodies == { "notjson", "nonobj", "obj_error", "obj_blocked", "obj_other", "obj_badstatus" }

Outcomes ==
    { [ transport |-> "raise", body |-> "notjson" ] }
    \cup { [ transport |-> t, body |-> b ] : t \in { "ok", "http_error" }, b \in Bodies }

\* The lookup did not succeed: no response, a non-2xx response, or a body
\* that is not JSON.
LookupFailed(o) == o.transport /= "ok" \/ o.body = "notjson"

\* check_domain_status(domain): the value it returns.  "error" stands for
\* the dict {"error": str(e)}; any other value is the response's JSON.
\* (INDIWTF_TOKEN is set: main() does not start the bot without it.)
check_domain_status(o) ==
    IF o.transport = "raise" THEN "obj_error"
    ELSE IF o.body = "notjson" THEN "obj_error"
    ELSE o.body

\* format_status_message(result, domain): the kind of line, or raised when
\* the expression raises ("error" in result on a non-container, result.get
\* on a non-dict, .upper() on a status that is not a string).
format_status_message(result) ==
    CASE result = "obj_error"     -> [ raised |-> FALSE, kind |-> "error" ]
      [] result = "nonobj"        -> [ raised |-> TRUE,  kind |-> "none" ]
      [] result = "obj_badstatus" -> [ raised |-> TRUE,  kind |-> "none" ]
      [] result = "obj_blocked"   -> [ raised |-> FALSE, kind |-> "blocked" ]
      [] OTHER                    -> [ raised |-> FALSE, kind |-> "allowed" ]

(***************************************************************************)
(* The command handlers, as functions of the file and the message.         *)
(***************************************************************************)
Reply(type, a, b, body) == [ type |-> type, a |-> a, b |-> b, body |-> body ]

\* The persisted state as a handler sees it: the chat and the domain list.
View(chat, domains) == [ chat |-> chat, domains |-> domains ]

\* What one synchronous run of a handler did: the file afterwards, the
\* replies it sends, whether it raised, and the state it handed to
\* save_data (saved is FALSE when it did not call save_data).
Outcome(f, replies, raised, saved, savedView) ==
    [ file |-> f, replies |-> replies, raised |-> raised,
      saved |-> saved, savedView |-> savedView ]

NoView == View({}, <<>>)

\* {domain.lower() for domain in domains_to_process}
Normalized(toks) == { Lower(t) : t \in ToSet(toks) }

\* if not domains_to_process  -- a variant that never takes the branch
NoArgumentsIgnored(toks) == FALSE

\* if not domains_to_process: the command came without a word after it
NoArguments(toks) == toks = <<>>

start_command(f, chat, fault) ==
    LET ld == load_data(f)
        data == [ ld.data EXCEPT !.chat = {chat} ]
        sv == save_data(f, data, fault)
        view == View(data.chat, IF data.domNull THEN <<>> ELSE UniqueDomains(data.domains))
    IN  IF ld.raised THEN Outcome(f, <<>>, TRUE, FALSE, NoView)
        ELSE IF sv.raised THEN Outcome(sv.file, <<>>, TRUE, TRUE, view)
        ELSE Outcome(sv.file, << Reply("welcome", 0, 0, <<>>) >>, FALSE, TRUE, view)

\* newly_added  -- a variant that takes every requested domain as new
NewlyAddedAll(to_add, current) == Sorted(to_add)

\* newly_added = sorted(list(domains_to_add - current_domains))
NewlyAdded(to_add, current) == Sorted(to_add \ current)

\* already_exist = sorted(list(domains_to_add & current_domains))
AlreadyExist(to_add, current) == Sorted(to_add \cap current)

\* data["domains"].extend(newly_added)  -- a variant that replaces the list
ExtendedReplacing(domains, newly) == newly

\* data["domains"].extend(newly_added)
Extended(domains, newly) == domains \o newly

\* add_command after domains_to_process has been extracted.
AddDomains(f, toks, fault) ==
    LET ld == load_data(f)
        data == ld.data
        current == ToSet(data.domains)
        to_add == Normalized(toks)
        newly == NewlyAdded(to_add, current)
        already == AlreadyExist(to_add, current)
        grown == [ data EXCEPT !.domains = Extended(data.domains, newly) ]
        sv == save_data(f, grown, fault)
        report == Reply("add_report", Len(newly), Len(already), <<>>)
    IN  IF NoArguments(toks)
        THEN Outcome(f, << Reply("usage_add", 0, 0, <<>>) >>, FALSE, FALSE, NoView)
        ELSE IF ld.raised \/ data.domNull THEN Outcome(f, <<>>, TRUE, FALSE, NoView)
        ELSE IF newly = <<>> THEN Outcome(f, <<report>>, FALSE, FALSE, NoView)
        ELSE Outcome(sv.file, <<report>>, FALSE, TRUE,
                     View(grown.chat, UniqueDomains(grown.domains)))

add_command(f, rest, fault) == AddDomains(f, get_domains_from_message(rest), fault)

\* successfully_removed  -- a variant with the two partitions exchanged
SuccessfullyRemovedSwapped(to_remove, current) == Sorted(to_remove \ current)

\* successfully_removed = sorted(list(domains_to_remove & current_domains))
SuccessfullyRemoved(to_remove, current) == Sorted(to_remove \cap current)

\* not_found = sorted(list(domains_to_remove - current_domains))
NotFound(to_remove, current) == Sorted(to_remove \ current)

\* remove_command after domains_to_process has been extracted.
RemoveDomains(f, toks, fault) ==
    LET ld == load_data(f)
        data == ld.data
        current == ToSet(data.domains)
        to_remove == Normalized(toks)
        removed == SuccessfullyRemoved(to_remove, current)
        missing == NotFound(to_remove, current)
        shrunk == [ data EXCEPT !.domains = Without(data.domains, ToSet(removed)) ]
        sv == save_data(f, shrunk, fault)
        report == Reply("remove_report", Len(removed), Len(missing), <<>>)
    IN  IF NoArguments(toks)
        THEN Outcome(f, << Reply("usage_remove", 0, 0, <<>>) >>, FALSE, FALSE, NoView)
        ELSE IF ld.raised \/ data.domNull THEN Outcome(f, <<>>, TRUE, FALSE, NoView)
        ELSE IF removed = <<>> THEN Outcome(f, <<report>>, FALSE, FALSE, NoView)
        ELSE Outcome(sv.file, <<report>>, FALSE, TRUE,
                     View(shrunk.chat, UniqueDomains(shrunk.domains)))

remove_command(f, rest, fault) == RemoveDomains(f, get_domains_from_message(rest), fault)

list_command(f) ==
    LET ld == load_data(f)
        domains == ld.data.domains
    IN  IF ld.raised THEN Outcome(f, <<>>, TRUE, FALSE, NoView)
        ELSE IF ld.data.domNull \/ domains = <<>>
             THEN Outcome(f, << Reply("list_empty", 0, 0, <<>>) >>, FALSE, FALSE, NoView)
        ELSE Outcome(f, << Reply("list", 0, 0, domains) >>, FALSE, FALSE, NoView)

\* check_command up to its first lookup: the usage reply, or the
\* "Checking ..." reply for the first word, lowercased (domains_to_check[0]
\* raises on an empty list).
check_command(f, rest) ==
    LET toks == get_domains_from_message(rest)
    IN  IF NoArguments(toks)
        THEN Outcome(f, << Reply("usage_check", 0, 0, <<>>) >>, FALSE, FALSE, NoView)
        ELSE IF toks = <<>> THEN Outcome(f, <<>>, TRUE, FALSE, NoView)
        ELSE Outcome(f, << Reply("checking", 0, 0, << Lower(toks[1]) >>) >>, FALSE, FALSE, NoView)

(***************************************************************************)
(* State.                                                                  *)
(***************************************************************************)
\* A handler task.  pc: "idle" (no update is being handled), "lookup"
\* (check_command awaits check_domain_status), "done" (the handler awaits
\* its last reply, or has raised, and then returns).
SlotOf(pc, kind, args, chat, o) ==
    [ pc |-> pc, kind |-> kind, args |-> args, chat |-> chat,
      replies |-> o.replies, lookups |-> 0, raised |-> o.raised,
      saved |-> o.saved, savedView |-> o.savedView ]

IdleSlot ==
    SlotOf("idle", "none", <<>>, {}, Outcome(Plain("absent"), <<>>, FALSE, FALSE, NoView))

\* The persisted state as the next load_data() returns it.
Persisted(f) ==
    LET ld == load_data(f)
    IN  View(ld.data.chat, ld.data.domains)

\* The periodic_check job.  pc: "idle", "running" (in the loop over the
\* domains), "skipped", "sent", "raised" (the three ways a pass ends).
\* chat and domains are the job's locals; snapChat and snapDomains record
\* what was persisted when the job called load_data().
PassOf(pc, chat, domains, lines, sent, snap) ==
    [ pc |-> pc, chat |-> chat, domains |-> domains, lines |-> lines,
      sent |-> sent, snapChat |-> snap.chat, snapDomains |-> snap.domains ]

IdlePass == PassOf("idle", {}, <<>>, <<>>, <<>>, NoView)

\* The files a deployment can start from: none, and what an operator or an
\* earlier run can have left in place.
InitialFiles ==
    { Plain("absent"), Plain("unreadable"), Plain("notutf8"), Plain("notjson"),
      Plain("nonobj"),
      FileOf("obj", FALSE, {}, FALSE, FALSE, <<>>),
      FileOf("obj", TRUE, {1001}, FALSE, FALSE, <<>>),
      FileOf("obj", FALSE, {}, TRUE, FALSE, << <<98>> >>),
      FileOf("obj", TRUE, {1001}, TRUE, TRUE, <<>>),
      Dumped({1001}, << <<97, 98>>, <<98>> >>) }

Init ==
    /\ file = Plain("absent")
    /\ handlers = [ h \in Slots |-> IdleSlot ]
    /\ periodic = IdlePass

InitAnyFile ==
    /\ file \in InitialFiles
    /\ handlers = [ h \in Slots |-> IdleSlot ]
    /\ periodic = IdlePass

(***************************************************************************)
(* The command handlers.                                                   *)
(***************************************************************************)
\* A handler's run up to its first await that is not its last.
Begin(h, pc, kind, args, chat, o) ==
    /\ handlers[h].pc = "idle"
    /\ file' = o.file
    /\ handlers' = [ handlers EXCEPT ![h] = SlotOf(pc, kind, args, chat, o) ]
    /\ UNCHANGED periodic

Start(h, chat, fault) ==
    Begin(h, "done", "start", <<>>, {chat}, start_command(file, chat, fault))

Add(h, rest, fault) ==
    LET toks == get_domains_from_message(rest)
    IN  Begin(h, "done", "add", toks, {}, add_command(file, rest, fault))

Remove(h, rest, fault) ==
    LET toks == get_domains_from_message(rest)
    IN  Begin(h, "done", "remove", toks, {}, remove_command(file, rest, fault))

List(h) ==
    Begin(h, "done", "list", <<>>, {}, list_command(file))

Check(h, rest) ==
    LET toks == get_domains_from_message(rest)
        o == check_command(file, rest)
        awaits == o.replies /= <<>> /\ o.replies[1].type = "checking"
    IN  Begin(h, IF awaits THEN "lookup" ELSE "done", "check",
              IF toks = <<>> THEN <<>> ELSE << toks[1] >>, {}, o)

\* check_command from the lookup's answer to its last reply.
CheckLookup(h, o) ==
    LET me == handlers[h]
        line == format_status_message(check_domain_status(o))
    IN  /\ me.pc = "lookup"
        /\ handlers' = [ handlers EXCEPT ![h] =
             [ me EXCEPT !.pc = "done",
                         !.lookups = @ + 1,
                         !.raised = line.raised,
                         !.replies = IF line.raised THEN @
                                     ELSE Append(@, Reply(line.kind, 0, 0, me.replies[1].body)) ] ]
        /\ UNCHANGED <<file, periodic>>

\* The handler returns and the next update can be handled.
Return(h) ==
    /\ handlers[h].pc = "done"
    /\ handlers' = [ handlers EXCEPT ![h] = IdleSlot ]
    /\ UNCHANGED <<file, periodic>>

(***************************************************************************)
(* periodic_check.                                                         *)
(***************************************************************************)
\* for domain in domains  -- a variant that reads the store again
PassDomainsReloaded(p, f) == Persisted(f).domains

\* for domain in domains: the list the loop runs over
PassDomains(p, f) == p.domains

\* A handler in "done" has nothing left to run but its return, which reads
\* and writes nothing the job touches: the job's steps are taken after it.
Settled == \A h \in Slots : handlers[h].pc /= "done"

\* The job fires: load_data(), and the test that skips the pass.
PeriodicStart ==
    LET ld == load_data(file)
        snap == Persisted(file)
    IN  /\ periodic.pc = "idle"
        /\ Settled
        /\ periodic' =
             IF ld.raised THEN PassOf("raised", {}, <<>>, <<>>, <<>>, snap)
             ELSE IF ld.data.chat = {} \/ ld.data.domNull \/ ld.data.domains = <<>>
                  THEN PassOf("skipped", ld.data.chat, ld.data.domains, <<>>, <<>>, snap)
             ELSE PassOf("running", ld.data.chat, ld.data.domains, <<>>, <<>>, snap)
        /\ UNCHANGED <<file, handlers>>

\* One iteration of the loop: the lookup, the line, the sleep.
PeriodicLookup(o) ==
    LET doms == PassDomains(periodic, file)
        n == Len(periodic.lines)
        line == format_status_message(check_domain_status(o))
    IN  /\ periodic.pc = "running"
        /\ Settled
        /\ n < Len(doms)
        /\ periodic' =
             IF line.raised THEN [ periodic EXCEPT !.pc = "raised", !.lines = <<>> ]
             ELSE [ periodic EXCEPT !.lines =
                      Append(@, [ q |-> doms[n + 1], kind |-> line.kind,
                                  failed |-> LookupFailed(o) ]) ]
        /\ UNCHANGED <<file, handlers>>

\* context.bot.send_message after the loop.
PeriodicSend ==
    /\ periodic.pc = "running"
    /\ Settled
    /\ Len(periodic.lines) >= Len(PassDomains(periodic, file))
    /\ periodic' = [ periodic EXCEPT
                       !.pc = "sent",
                       !.sent = Append(@, [ chat |-> periodic.chat, lines |-> periodic.lines ]) ]
    /\ UNCHANGED <<file, handlers>>

\* The job's coroutine ends; the next firing starts from nothing.
PeriodicEnd ==
    /\ periodic.pc \in { "skipped", "sent", "raised" }
    /\ Settled
    /\ periodic' = IdlePass
    /\ UNCHANGED <<file, handlers>>

Periodic ==
    \/ PeriodicStart
    \/ \E o \in Outcomes : PeriodicLookup(o)
    \/ PeriodicSend
    \/ PeriodicEnd

(***************************************************************************)
(* Specifications.                                                         *)
(***************************************************************************)
\* Updates are handled one at a time (the Application of main() is built
\* without concurrent updates), every write succeeds, and the job runs
\* beside the handlers.
Next ==
    \/ \E c \in Chats : Start("h1", c, "none")
    \/ \E r \in Texts : Add("h1", r, "none")
    \/ \E r \in Texts : Remove("h1", r, "none")
    \/ List("h1")
    \/ \E r \in Texts : Check("h1", r)
    \/ \E o \in Outcomes : CheckLookup("h1", o)
    \/ Return("h1")
    \/ Periodic

Spec == Init /\ [][Next]_vars

\* The handlers that use the store and the job, from any initial file and
\* with writes that can fail.
NextFaulty ==
    \/ \E c \in Chats, w \in WriteFaults : Start("h1", c, w)
    \/ \E r \in Texts, w \in WriteFaults : Add("h1", r, w)
    \/ \E r \in Texts, w \in WriteFaults : Remove("h1", r, w)
    \/ List("h1")
    \/ Return("h1")
    \/ Periodic

SpecFaulty == InitAnyFile /\ [][NextFaulty]_vars

\* The commands that write the store, handled as concurrent tasks: they
\* interleave where a handler awaits.
NextConcurrent ==
    \/ \E h \in Slots, c \in Chats : Start(h, c, "none")
    \/ \E h \in Slots, r \in Texts : Add(h, r, "none")
    \/ \E h \in Slots, r \in Texts : Remove(h, r, "none")
    \/ \E h \in Slots : Return(h)

SpecConcurrent == Init /\ [][NextConcurrent]_vars

(***************************************************************************)
(* Properties.                                                             *)
(***************************************************************************)
IsLowercase(w) == \A i \in DOMAIN w : ~(w[i] >= 65 /\ w[i] <= 90)

Ascending(d) == \A i \in 1 .. Len(d) - 1 : StrLess(d[i], d[i + 1])

\* C1: from an absent data file, whatever commands are handled, the
\* domains list in the file is, after every save, all lowercase, free of
\* duplicates and in ascending order.
C1_PersistedSortedLowercase ==
    /\ file.kind \in { "absent", "obj" }
    /\ file.kind = "obj" =>
         /\ file.hasDomains /\ ~file.domNull
         /\ \A i \in DOMAIN file.domains : IsLowercase(file.domains[i])
         /\ Ascending(file.domains)

\* An add typed in upper case has been saved beside another domain.
C1_Witness ==
    /\ handlers["h1"].kind = "add"
    /\ handlers["h1"].saved
    /\ \E t \in ToSet(handlers["h1"].args) : ~IsLowercase(t)
    /\ file.kind = "obj"
    /\ Len(file.domains) = 2

Occurrences(d, x) == Cardinality({ i \in DOMAIN d : d[i] = x })

\* Handler h starts handling a command in this step.
Begins(h, kind) ==
    /\ handlers[h].pc = "idle"
    /\ handlers'[h].pc /= "idle"
    /\ handlers'[h].kind = kind

\* C2: once an add of some domains has been handled, handling the same add
\* next leaves one entry for each of the domains, leaves the store as the
\* first add left it, and is answered with every domain counted as skipped
\* and none as added.
C2_AddTwiceIsIdempotent ==
    [][ \A h \in Slots :
          ( Begins(h, "add") /\ handlers'[h].args /= <<>> ) =>
            LET asked == { Lower(t) : t \in ToSet(handlers'[h].args) }
                second == AddDomains(file', handlers'[h].args, "none")
            IN  /\ second.file = file'
                /\ second.replies = << Reply("add_report", 0, Cardinality(asked), <<>>) >>
                /\ \A d \in asked : Occurrences(Persisted(second.file).domains, d) = 1
      ]_vars

\* An add of a domain that is on the list, typed in another case, has been
\* answered.
C2_Witness ==
    /\ handlers["h1"].kind = "add"
    /\ handlers["h1"].pc = "done"
    /\ handlers["h1"].args = << <<66>> >>
    /\ handlers["h1"].replies = << Reply("add_report", 0, 1, <<>>) >>
    /\ <<98>> \in ToSet(Persisted(file).domains)

\* C3: a remove of domains none of which is on the stored list reports
\* them all as not found and leaves the data file as it was.
C3_RemoveAbsentChangesNothing ==
    [][ \A h \in Slots :
          LET asked == { Lower(t) : t \in ToSet(handlers'[h].args) }
          IN  ( /\ Begins(h, "remove")
                /\ asked /= {}
                /\ asked \cap ToSet(Persisted(file).domains) = {} )
              => /\ file' = file
                 /\ handlers'[h].replies =
                      << Reply("remove_report", 0, Cardinality(asked), <<>>) >>
      ]_vars

\* A remove of a domain that is not on a list that holds another domain
\* has been answered.
C3_Witness ==
    /\ handlers["h1"].kind = "remove"
    /\ handlers["h1"].pc = "done"
    /\ handlers["h1"].replies = << Reply("remove_report", 0, 1, <<>>) >>
    /\ file.kind = "obj"
    /\ file.domains /= <<>>
    /\ file.chat /= {}

UsageOf(kind) ==
    CASE kind = "add" -> "usage_add"
      [] kind = "remove" -> "usage_remove"
      [] OTHER -> "usage_check"

\* C4: an add, remove or check without a word after the command is
\* answered with the usage message alone, changes nothing in the data
\* file, and (for check) performs no lookup.
C4_NoArgumentsGetsUsage ==
    [][ \A h \in Slots :
          ( /\ handlers'[h].kind \in { "add", "remove", "check" }
            /\ handlers'[h].args = <<>> )
          => /\ file' = file
             /\ handlers'[h].pc = "done"
             /\ handlers'[h].replies = << Reply(UsageOf(handlers'[h].kind), 0, 0, <<>>) >>
             /\ handlers'[h].lookups = 0
             /\ ~handlers'[h].saved
      ]_vars

\* A check without a word has been answered while the list is not empty.
C4_Witness ==
    /\ handlers["h1"].kind = "check"
    /\ handlers["h1"].args = <<>>
    /\ handlers["h1"].pc = "done"
    /\ file.kind = "obj"
    /\ file.domains /= <<>>

PassEnded == periodic.pc \in { "skipped", "sent", "raised" }

\* C5: a firing of the job sends exactly one message, to the recorded
\* chat, when the loaded state has a chat and a domain; it sends none
\* when the chat is unset or the list is empty.
C5_OneMessagePerFiring ==
    PassEnded =>
        IF periodic.snapChat /= {} /\ periodic.snapDomains /= <<>>
        THEN Len(periodic.sent) = 1 /\ periodic.sent[1].chat = periodic.snapChat
        ELSE periodic.sent = <<>>

\* C6: whatever the lookups answer, a pass looks up each stored domain in
\* the list's order, still sends its message with one line per domain in
\* that order, and the line of every failed lookup is an error line.
C6_FailedLookupsAreErrorLines ==
    /\ periodic.pc /= "raised"
    /\ \A k \in DOMAIN periodic.lines :
         /\ k <= Len(periodic.snapDomains)
         /\ periodic.lines[k].q = periodic.snapDomains[k]
         /\ periodic.lines[k].failed => periodic.lines[k].kind = "error"
    /\ periodic.pc = "sent" =>
         /\ Len(periodic.sent) = 1
         /\ periodic.sent[1].lines = periodic.lines
         /\ Len(periodic.lines) = Len(periodic.snapDomains)

\* A handler that has written the store and answered, and has not returned.
Wrote(h) ==
    /\ handlers[h].pc = "done"
    /\ handlers[h].kind \in { "start", "add", "remove" }
    /\ handlers[h].saved
    /\ ~handlers[h].raised

\* What the command handled by h asked for is in the persisted state.
EffectPersisted(h) ==
    LET me == handlers[h]
        now == Persisted(file)
        asked == { Lower(t) : t \in ToSet(me.args) }
    IN  CASE me.kind = "start" -> now.chat = me.chat
          [] me.kind = "add" -> asked \subseteq ToSet(now.domains)
          [] OTHER -> asked \cap ToSet(now.domains) = {}

\* The two commands ask for opposite things: whichever is handled last
\* undoes part of the other.
Conflicting(h, g) ==
    LET a == handlers[h]
        b == handlers[g]
        askedA == { Lower(t) : t \in ToSet(a.args) }
        askedB == { Lower(t) : t \in ToSet(b.args) }
    IN  \/ a.kind = "start" /\ b.kind = "start" /\ a.chat /= b.chat
        \/ a.kind = "add" /\ b.kind = "remove" /\ askedA \cap askedB /= {}
        \/ a.kind = "remove" /\ b.kind = "add" /\ askedA \cap askedB /= {}

\* Two commands handled side by side have both written and answered, and
\* the persisted state lacks what one of them asked for.
LostUpdate ==
    /\ Wrote("h1") /\ Wrote("h2")
    /\ ~Conflicting("h1", "h2")
    /\ ~(EffectPersisted("h1") /\ EffectPersisted("h2"))

\* The argument lists the texts of a command can carry.
ArgLists == { get_domains_from_message(r) : r \in Texts }

\* A handler starts handling a command that writes the store.
WriterBegins(h) ==
    \/ \E c \in Chats :
          Begin(h, "done", "start", <<>>, {c}, start_command(file, c, "none"))
    \/ \E toks \in ArgLists :
          Begin(h, "done", "add", toks, {}, AddDomains(file, toks, "none"))
    \/ \E toks \in ArgLists :
          Begin(h, "done", "remove", toks, {}, RemoveDomains(file, toks, "none"))

\* C7 as stated: when two commands that write the store are handled side
\* by side, a state can be reached in which both have written and answered
\* and the persisted state lacks the effect of one of them.
C7_LostUpdateReachable ==
    (\A h \in Slots : handlers[h].pc = "idle") =>
        ENABLED ( WriterBegins("h1") /\ (ENABLED ( WriterBegins("h2") /\ LostUpdate' ))' )

\* C7, amended: every write of a handler is the state persisted right
\* before it with that command's change applied, also when the handlers
\* run side by side: a handler does not await between its load_data() and
\* its save_data(), so no update is lost.
C7_EveryWriteBuildsOnPersisted ==
    [][ \A h \in Slots :
          ( handlers[h].pc = "idle" /\ handlers'[h].pc = "done" ) =>
            LET me == handlers'[h]
                before == Persisted(file)
                after == Persisted(file')
                asked == { Lower(t) : t \in ToSet(me.args) }
            IN  CASE me.kind = "start" ->
                       after.chat = me.chat /\ after.domains = before.domains
                  [] me.kind = "add" /\ me.args /= <<>> ->
                       /\ after.chat = before.chat
                       /\ ToSet(after.domains) = ToSet(before.domains) \cup asked
                  [] me.kind = "remove" /\ me.args /= <<>> ->
                       /\ after.chat = before.chat
                       /\ ToSet(after.domains) = ToSet(before.domains) \ asked
                  [] OTHER -> file' = file
      ]_vars

\* Two handlers, neither returned, have each added a domain and set the
\* chat, and the file holds both.
C7_Witness ==
    /\ Wrote("h1") /\ Wrote("h2")
    /\ handlers["h1"].kind = "add" /\ handlers["h2"].kind = "add"
    /\ handlers["h1"].args /= handlers["h2"].args
    /\ EffectPersisted("h1") /\ EffectPersisted("h2")
    /\ Len(Persisted(file).domains) = 2

\* C8: whatever happens to a write, the state the next load returns is the
\* state persisted before the save or the state handed to save_data.
C8_SaveIsAtomic ==
    [][ \A h \in Slots :
          ( handlers[h].pc = "idle" /\ handlers'[h].saved ) =>
            \/ Persisted(file') = Persisted(file)
            \/ Persisted(file') = handlers'[h].savedView
      ]_vars

\* C9: whatever the data file holds, load_data returns a state with a
\* list of domains, and no handler and no pass of the job ends in an
\* exception on account of it.
C9_LoadNeverFails ==
    /\ ~load_data(file).raised
    /\ ~load_data(file).data.domNull
    /\ \A h \in Slots : ~handlers[h].raised
    /\ ~(periodic.pc = "raised" /\ periodic.domains = <<>>)

\* C10: a pass works on what it loaded when it started: its lookups follow
\* the domain list persisted then, and its report has that list's lines
\* and goes to the chat persisted then, whatever commands are handled
\* while it runs.
C10_PassUsesItsSnapshot ==
    /\ periodic.pc \in { "running", "sent" } =>
         /\ Len(periodic.lines) <= Len(periodic.snapDomains)
         /\ \A k \in DOMAIN periodic.lines :
              periodic.lines[k].q = periodic.snapDomains[k]
    /\ periodic.pc = "sent" =>
         /\ Len(periodic.lines) = Len(periodic.snapDomains)
         /\ periodic.sent = << [ chat |-> periodic.snapChat, lines |-> periodic.lines ] >>

\* A report has been sent after commands changed both the chat and the
\* list while the pass ran.
C10_Witness ==
    /\ periodic.pc = "sent"
    /\ Len(periodic.snapDomains) = 2
    /\ Persisted(file).chat /= periodic.snapChat
    /\ Persisted(file).domains /= periodic.snapDomains

=============================================================================
